---------------------------- MODULE Spec2Model ----------------------------
(***************************************************************************)
(* The chatbot graphs of the two notebooks, as one state machine.          *)
(*                                                                         *)
(*   nb = 2  part_2_enhancing_the_chatbot_with_tools.ipynb: State has the  *)
(*           messages channel only; nodes chatbot and tools (the           *)
(*           hand-rolled BasicToolNode over [tavily]); conditional edge    *)
(*           route_tools; compiled without a checkpointer.                 *)
(*   nb = 5  part_5_customizing_state.ipynb: State has messages, name and  *)
(*           birthday; nodes chatbot (with its assertion) and tools (the   *)
(*           prebuilt ToolNode over [tavily, human_assistance]);           *)
(*           conditional edge tools_condition; compiled with MemorySaver.  *)
(*                                                                         *)
(* The language model, the search API and the human reviewer are the       *)
(* environment: their answers are drawn from small sets.  The graph        *)
(* executor, the add_messages reducer, interrupt() and the prebuilt        *)
(* ToolNode / tools_condition are the imported framework; they are         *)
(* modelled by what the notebooks' calls to them do.                       *)
(*                                                                         *)
(*   Spec         one graph run after the other: part 2 driven by its      *)
(*                input loop, part 5 by stream and resume calls            *)
(*   SpecThreads  part 5's graph called under two thread ids, with         *)
(*                get_state and update_state                               *)
(*   SpecCalls    route_tools, BasicToolNode and chatbot called directly   *)
(*   SpecEnv      _set_env and the process environment                     *)
(***************************************************************************)
EXTENDS Integers, Sequences, FiniteSets, TLC

VARIABLES
    nb,          \* which notebook's graph is compiled: 2 or 5
    pc,          \* "idle", the node to run next ("chatbot", "tools"),
                 \* "interrupted", "END" or "error"
    messages,    \* the State's messages channel
    name,        \* the State's name channel (part 5), Absent until written
    birthday,    \* the State's birthday channel (part 5), Absent until written
    routed,      \* the label the conditional edge returned last in this run
    interrupts,  \* the interrupt payloads surfaced to the caller and pending
    executed,    \* the nodes that completed in this run, in order (the
                 \* update events graph.stream yields)
    run,         \* the number of graph.stream calls with a new user input
    prompt,      \* the argument of the last llm_with_tools.invoke call
    invoked,     \* the ids of the tool calls the last tools execution invoked
    delivered,   \* the tool-call ids whose interrupt received a resume value
    resume_value, \* <<v>> when the last tools execution ran under
                 \* Command(resume=v), <<>> otherwise
    error,       \* the exception that ended the run, "none" otherwise
    memory,      \* the MemorySaver of part 5: thread id -> saved checkpoint
    reviewed,    \* thread id -> <<[name, birthday]>>, the values the last
                 \* human_assistance Command of the thread wrote; <<>> when
                 \* none did or update_state has overridden them since
    last_call,   \* the call a cell made last, its argument and its result
    loop,        \* part 2's input loop: "input" (at input()), "try" (in
                 \* stream_graph_updates under try), "except" (in it under
                 \* except), "done" (after break), "raised" (left by an
                 \* exception); "none" in part 5, which has no loop
    user_input,  \* the loop's variable of that name, <<>> until assigned
    printed,     \* the lines printed since the last input() call
    caught,      \* what the loop's except clause caught, "none" before
    environ,     \* os.environ: variable -> value, Absent when not set
    prompts      \* the getpass prompts shown so far and what was entered

\* the variables of one graph run
graph_vars == <<nb, pc, messages, name, birthday, routed, interrupts, executed,
                run, prompt, invoked, delivered, resume_value, error>>
\* the variables of the calls made on a checkpointed graph
thread_vars == <<memory, reviewed, last_call>>

\* the variables of part 2's input loop
loop_vars == <<loop, user_input, printed, caught>>

\* the variables of the process environment
env_vars == <<environ, prompts>>

vars == <<graph_vars, thread_vars, loop_vars, env_vars>>

-----------------------------------------------------------------------------
(* Bounds of the model. *)

\* The model requests tools only while the history is shorter than this.
MaxMsgs == 4
\* The most tool calls the model puts into one reply.
MaxCalls == 2
\* The most graph.stream calls with a new user input.
MaxRuns == 2
\* The most getpass prompts shown.
MaxPrompts == 2

-----------------------------------------------------------------------------
(* Values. *)

Absent == "<absent>"
END == "__end__"
START == "__start__"

TAVILY == "tavily_search_results_json"
HUMAN_ASSISTANCE == "human_assistance"

Last(s) == s[Len(s)]

\* dict.get(key, default)
Get(d, k, default) == IF k \in DOMAIN d THEN d[k] ELSE default

\* A string as the sequence of its characters, where the code looks into it.
Lower(c) ==
    LET upper == <<"E", "I", "N", "Q", "S", "T", "U", "X", "Y">>
        lower == <<"e", "i", "n", "q", "s", "t", "u", "x", "y">>
    IN  IF \E i \in 1..Len(upper) : upper[i] = c
        THEN lower[CHOOSE i \in 1..Len(upper) : upper[i] = c]
        ELSE c
StrLower(s) == [i \in 1..Len(s) |-> Lower(s[i])]
StartsWith(s, c) == Len(s) >= 1 /\ s[1] = c

\* Message content: a text and the objects formatted into it.
Text(t) == [text |-> t, args |-> <<>>]
Fmt(t, obj) == [text |-> t, args |-> <<obj>>]

\* json.dumps(obj): the serialised form of obj
json_dumps(obj) == Fmt("json", obj)

HumanMessage(content) ==
    [type |-> "human", id |-> 0, content |-> Text(content),
     tool_calls |-> <<>>, tool_call_id |-> <<>>, name |-> Absent]

AIMessage(id, calls) ==
    [type |-> "ai", id |-> id, content |-> Text("reply"),
     tool_calls |-> calls, tool_call_id |-> <<>>, name |-> Absent]

ToolMessage(content, nm, tool_call_id) ==
    [type |-> "tool", id |-> 0, content |-> content,
     tool_calls |-> <<>>, tool_call_id |-> tool_call_id, name |-> nm]

\* hasattr(message, "tool_calls"): only AI messages have the attribute
HasToolCallsAttr(m) == m.type = "ai"

-----------------------------------------------------------------------------
(* The add_messages reducer of the messages channel: messages of the       *)
(* update without an id get a fresh one; a message whose id is already in  *)
(* the history replaces that message, any other is appended.               *)

MaxId(s) == IF s = <<>> THEN 0
            ELSE CHOOSE m \in {s[i].id : i \in 1..Len(s)} :
                     \A j \in 1..Len(s) : s[j].id <= m

WithIds(left, right) ==
    LET base == IF MaxId(left) >= MaxId(right) THEN MaxId(left) ELSE MaxId(right)
    IN  [i \in 1..Len(right) |->
            IF right[i].id = 0 THEN [right[i] EXCEPT !.id = base + i]
            ELSE right[i]]

RECURSIVE Merge(_, _)
Merge(left, right) ==
    IF right = <<>> THEN left
    ELSE LET m == Head(right)
             hit == {i \in 1..Len(left) : left[i].id = m.id}
         IN  IF hit = {}
             THEN Merge(Append(left, m), Tail(right))
             ELSE Merge([left EXCEPT ![CHOOSE i \in hit : TRUE] = m], Tail(right))

\* a messages channel without the reducer: the update overwrites the history
add_messages_overwrite(left, right) == WithIds(left, right)

add_messages(left, right) == Merge(left, WithIds(left, right))

-----------------------------------------------------------------------------
(* The State dict a node or a conditional edge receives: a channel that    *)
(* was never written has no key.                                           *)

State(msgs, n, b) ==
    [k \in {"messages"} \cup (IF n = Absent THEN {} ELSE {"name"})
                        \cup (IF b = Absent THEN {} ELSE {"birthday"}) |->
        CASE k = "messages" -> msgs
          [] k = "name"     -> n
          [] OTHER          -> b]

-----------------------------------------------------------------------------
(* The environment: what the hosted model, the search API and the human    *)
(* reviewer may answer.                                                     *)

Names == {"LangGraph", "LangChain"}
Birthdays == {"January 17, 2024"}
HumanNames == {"LangGraph library"}
HumanBirthdays == {"Jan 17, 2024"}
Corrects == {<<>>, <<"y">>, <<"Y", "e", "s">>, <<"n", "o">>, <<"n", "y">>}
UserInputs == {"Can you look up when LangGraph was released?"}

\* The lines the user may type at part 2's prompt, as character sequences.
Lines ==
    {<<"q">>, <<"Q">>, <<"q", "u", "i", "t">>, <<"Q", "u", "i", "t">>,
     <<"E", "X", "I", "T">>, <<"q", "u", "i", "t", "s">>, <<"h", "i">>}
\* The question of the loop's except branch (a string nothing looks into).
Fallback == <<"What do you know about LangGraph?">>

\* The (name, args) of a tool call the model may request.
CallChoices ==
    {[name |-> TAVILY, args |-> [query |-> "LangGraph release date"]]}
    \cup {[name |-> HUMAN_ASSISTANCE, args |-> [name |-> n, birthday |-> b]] :
             n \in Names, b \in Birthdays}

\* The id the provider gives the i-th tool call of the reply to `history`.
CallId(history, i) == <<Len(history) + 1, i>>

\* The replies the model may give to `history`: an AI message with 0..MaxCalls
\* tool calls, each with an id of its own.
LLMReplies(history) ==
    {AIMessage(MaxId(history) + 1,
               [i \in 1..Len(cs) |->
                   [name |-> cs[i].name, args |-> cs[i].args,
                    id |-> CallId(history, i)]]) :
        cs \in UNION {[1..n -> CallChoices] : n \in 0..MaxCalls}}

\* llm_with_tools.invoke(history): a reply, or the provider's error.
LLMOutcomes(history) ==
    {[raised |-> FALSE, message |-> r] : r \in LLMReplies(history)}
    \cup {[raised |-> TRUE, message |-> AIMessage(0, <<>>)]}

\* What the reviewer may pass as Command(resume=...): a dict with any of the
\* keys correct, name, birthday.
HumanResponses ==
    {[k \in ks |->
        CASE k = "correct" -> c
          [] k = "name"    -> n
          [] OTHER         -> b] :
        ks \in SUBSET {"correct", "name", "birthday"},
        c \in Corrects, n \in HumanNames, b \in HumanBirthdays}

-----------------------------------------------------------------------------
(* The tools. *)

\* tool = TavilySearchResults(max_results=2)
tool == [name |-> TAVILY]
\* the @tool-decorated human_assistance
human_assistance_tool == [name |-> HUMAN_ASSISTANCE]

\* part 2: tools = [tool];  part 5: tools = [tool, human_assistance]
tools2 == <<tool>>
tools5 == <<tool, human_assistance_tool>>

\* tool.invoke(args) of the search tool, when the API answers
invoke(t, args) == [tool |-> t.name, query |-> Get(args, "query", Absent)]

\* {tool.name: tool for tool in tools}
tools_by_name(tools) ==
    [n \in {tools[i].name : i \in 1..Len(tools)} |->
        tools[CHOOSE i \in 1..Len(tools) :
                 /\ tools[i].name = n
                 /\ \A j \in 1..Len(tools) : tools[j].name = n => j <= i]]

NoUpdate == [messages |-> <<>>, name |-> Absent, birthday |-> Absent]
NoPayload == [question |-> Absent, name |-> Absent, birthday |-> Absent,
              tool_call_id |-> <<>>]

-----------------------------------------------------------------------------
(* Part 2: the conditional edge. The result is the label returned, or the  *)
(* exception raised.                                                        *)

\* The argument of route_tools: a list of messages, or a State dict.
AsList(msgs) == [is_list |-> TRUE, items |-> msgs, dict |-> [k \in {} |-> <<>>]]
AsDict(d) == [is_list |-> FALSE, items |-> <<>>, dict |-> d]

\* route_tools looking at the first message of the history instead of the last
route_tools_first(state) ==
    LET msgs == IF state.is_list THEN state.items
                ELSE Get(state.dict, "messages", <<>>)
    IN  IF msgs = <<>> THEN "ValueError"
        ELSE IF HasToolCallsAttr(msgs[1]) /\ Len(msgs[1].tool_calls) > 0
             THEN "tools"
             ELSE END

\* route_tools answering END whatever the last message carries
route_tools_end(state) ==
    IF state.is_list /\ state.items = <<>> THEN "IndexError"
    ELSE IF ~state.is_list /\ Get(state.dict, "messages", <<>>) = <<>>
    THEN "ValueError"
    ELSE END

\* route_tools falling through to END where it has no message to look at
route_tools_lenient(state) ==
    LET msgs == IF state.is_list THEN state.items
                ELSE Get(state.dict, "messages", <<>>)
    IN  IF msgs # <<>> /\ HasToolCallsAttr(Last(msgs))
           /\ Len(Last(msgs).tool_calls) > 0
        THEN "tools"
        ELSE END

route_tools(state) ==
    IF state.is_list /\ state.items = <<>> THEN "IndexError"
    ELSE IF ~state.is_list /\ Get(state.dict, "messages", <<>>) = <<>>
    THEN "ValueError"
    ELSE LET ai_message == IF state.is_list THEN Last(state.items)
                           ELSE Last(Get(state.dict, "messages", <<>>))
         IN  IF HasToolCallsAttr(ai_message) /\ Len(ai_message.tool_calls) > 0
             THEN "tools"
             ELSE END

\* Part 5: the prebuilt tools_condition, the same decision.
tools_condition(state) ==
    LET msgs == Get(state, "messages", <<>>)
    IN  IF msgs = <<>> THEN "ValueError"
        ELSE IF HasToolCallsAttr(Last(msgs)) /\ Len(Last(msgs).tool_calls) > 0
             THEN "tools"
             ELSE END

-----------------------------------------------------------------------------
(* The chatbot node. `out` is what llm_with_tools.invoke answers. The      *)
(* result names the argument passed to the model, the exception raised     *)
(* ("none" otherwise) and the update returned.                             *)

\* chatbot passing only the latest message to the model
chatbot2_last_only(state, out) ==
    [prompt |-> <<Last(state["messages"])>>,
     status |-> IF out.raised THEN "LLMError" ELSE "none",
     update |-> IF out.raised THEN NoUpdate
                ELSE [NoUpdate EXCEPT !.messages = <<out.message>>]]

\* Part 2.
chatbot2(state, out) ==
    [prompt |-> state["messages"],
     status |-> IF out.raised THEN "LLMError" ELSE "none",
     update |-> IF out.raised THEN NoUpdate
                ELSE [NoUpdate EXCEPT !.messages = <<out.message>>]]

\* part 5's chatbot without its assertion
chatbot5_unchecked(state, out) ==
    [prompt |-> state["messages"],
     status |-> IF out.raised THEN "LLMError" ELSE "none",
     update |-> IF out.raised THEN NoUpdate
                ELSE [NoUpdate EXCEPT !.messages = <<out.message>>]]

\* Part 5: with the assertion on the number of tool calls.
chatbot5(state, out) ==
    [prompt |-> state["messages"],
     status |-> IF out.raised THEN "LLMError"
                ELSE IF ~(Len(out.message.tool_calls) <= 1) THEN "AssertionError"
                ELSE "none",
     update |-> IF out.raised \/ ~(Len(out.message.tool_calls) <= 1) THEN NoUpdate
                ELSE [NoUpdate EXCEPT !.messages = <<out.message>>]]

-----------------------------------------------------------------------------
(* Part 2: BasicToolNode.__call__. oracle[i] says whether the invocation   *)
(* of the i-th tool call answers ("ok") or raises ("raise"). The result    *)
(* names the exception raised ("none" otherwise), the ids of the tool      *)
(* calls whose tool was invoked, and the update returned.                  *)

\* The first tool call of `calls` whose lookup or invocation raises, 0 if none.
FirstFailure(by_name, calls, oracle) ==
    LET bad == {i \in 1..Len(calls) :
                   calls[i].name \notin DOMAIN by_name \/ oracle[i] = "raise"}
    IN  IF bad = {} THEN 0 ELSE CHOOSE i \in bad : \A j \in bad : i <= j

\* BasicToolNode putting each result in front of the earlier ones
BasicToolNode_reversed(tools, inputs, oracle) ==
    LET by_name == tools_by_name(tools)
        calls == Last(inputs["messages"]).tool_calls
        n == Len(calls)
    IN  IF FirstFailure(by_name, calls, oracle) # 0
        THEN [status |-> "ToolError", invoked |-> <<>>, update |-> NoUpdate]
        ELSE [status |-> "none",
              invoked |-> [i \in 1..n |-> calls[i].id],
              update |-> [NoUpdate EXCEPT !.messages =
                  [i \in 1..n |->
                      ToolMessage(
                          json_dumps(invoke(by_name[calls[n + 1 - i].name],
                                            calls[n + 1 - i].args)),
                          calls[n + 1 - i].name,
                          calls[n + 1 - i].id)]]]

\* BasicToolNode answering only the first tool call of the request
BasicToolNode_first_only(tools, inputs, oracle) ==
    LET by_name == tools_by_name(tools)
        calls == Last(inputs["messages"]).tool_calls
    IN  IF FirstFailure(by_name, calls, oracle) # 0
        THEN [status |-> "ToolError", invoked |-> <<>>, update |-> NoUpdate]
        ELSE [status |-> "none",
              invoked |-> [i \in 1..1 |-> calls[i].id],
              update |-> [NoUpdate EXCEPT !.messages =
                  [i \in 1..1 |->
                      ToolMessage(
                          json_dumps(invoke(by_name[calls[i].name],
                                            calls[i].args)),
                          calls[i].name,
                          calls[i].id)]]]

\* BasicToolNode stopping at the first failing tool call and returning the
\* results it has so far
BasicToolNode_partial(tools, inputs, oracle) ==
    LET by_name == tools_by_name(tools)
        msgs == Get(inputs, "messages", <<>>)
        calls == IF msgs # <<>> /\ HasToolCallsAttr(Last(msgs))
                 THEN Last(msgs).tool_calls ELSE <<>>
        f == FirstFailure(by_name, calls, oracle)
        n == IF f = 0 THEN Len(calls) ELSE f - 1
    IN  [status |-> "none",
         invoked |-> [i \in 1..n |-> calls[i].id],
         update |-> [NoUpdate EXCEPT !.messages =
             [i \in 1..n |->
                 ToolMessage(
                     json_dumps(invoke(by_name[calls[i].name], calls[i].args)),
                     calls[i].name,
                     calls[i].id)]]]

\* BasicToolNode without its guard: no message, nothing to do
BasicToolNode_unguarded(tools, inputs, oracle) ==
    IF Get(inputs, "messages", <<>>) = <<>>
    THEN [status |-> "none", invoked |-> <<>>, update |-> NoUpdate]
    ELSE BasicToolNode_reversed(tools, inputs, oracle)

BasicToolNode(tools, inputs, oracle) ==
    LET by_name == tools_by_name(tools)
        msgs == Get(inputs, "messages", <<>>)
    IN  IF msgs = <<>>
        THEN [status |-> "ValueError", invoked |-> <<>>, update |-> NoUpdate]
        ELSE
        LET message == Last(msgs)
        IN  IF ~HasToolCallsAttr(message)
            THEN [status |-> "AttributeError", invoked |-> <<>>, update |-> NoUpdate]
            ELSE
            LET calls == message.tool_calls
                f == FirstFailure(by_name, calls, oracle)
                outputs == [i \in 1..Len(calls) |->
                              ToolMessage(
                                  json_dumps(invoke(by_name[calls[i].name], calls[i].args)),
                                  calls[i].name,
                                  calls[i].id)]
            IN  IF f = 0
                THEN [status |-> "none",
                      invoked |-> [i \in 1..Len(calls) |-> calls[i].id],
                      update |-> [NoUpdate EXCEPT !.messages = outputs]]
                ELSE IF calls[f].name \notin DOMAIN by_name
                THEN [status |-> "KeyError",
                      invoked |-> [i \in 1..(f - 1) |-> calls[i].id],
                      update |-> NoUpdate]
                ELSE [status |-> "ToolError",
                      invoked |-> [i \in 1..f |-> calls[i].id],
                      update |-> NoUpdate]

-----------------------------------------------------------------------------
(* Part 5: the human_assistance tool. `resume` is <<>> while no resume     *)
(* value was supplied for its interrupt() call (interrupt then raises and  *)
(* the run pauses with the payload), and <<v>> once Command(resume=v) was: *)
(* the tool runs again and interrupt() returns v.                          *)

\* human_assistance with name and birthday exchanged in the interrupt payload
human_assistance_swapped(n, b, tool_call_id, resume) ==
    IF resume = <<>>
    THEN [kind |-> "interrupt",
          payload |-> [question |-> "Is this correct?", name |-> b,
                       birthday |-> n, tool_call_id |-> tool_call_id],
          update |-> NoUpdate]
    ELSE [kind |-> "command",
          payload |-> NoPayload,
          update |-> [name |-> n, birthday |-> b,
                      messages |-> <<ToolMessage(Text("Correct"), HUMAN_ASSISTANCE,
                                                 tool_call_id)>>]]

\* human_assistance storing the model's proposal without asking the reviewer
human_assistance_eager(n, b, tool_call_id, resume) ==
    [kind |-> "command",
     payload |-> NoPayload,
     update |-> [name |-> n, birthday |-> b,
                 messages |-> <<ToolMessage(Text("Correct"), HUMAN_ASSISTANCE,
                                            tool_call_id)>>]]

\* human_assistance comparing "correct" without lower-casing it
human_assistance_case(n, b, tool_call_id, resume) ==
    IF resume = <<>>
    THEN [kind |-> "interrupt",
          payload |-> [question |-> "Is this correct?", name |-> n,
                       birthday |-> b, tool_call_id |-> tool_call_id],
          update |-> NoUpdate]
    ELSE
    LET human_response == resume[1]
        yes == StartsWith(Get(human_response, "correct", <<>>), "y")
    IN  [kind |-> "command",
         payload |-> NoPayload,
         update |-> [name |-> IF yes THEN n ELSE Get(human_response, "name", n),
                     birthday |-> IF yes THEN b
                                  ELSE Get(human_response, "birthday", b),
                     messages |-> <<ToolMessage(
                         IF yes THEN Text("Correct")
                         ELSE Fmt("Made a correction: ", human_response),
                         HUMAN_ASSISTANCE, tool_call_id)>>]]

\* human_assistance accepting when "correct" contains a "y" anywhere
human_assistance_contains(n, b, tool_call_id, resume) ==
    IF resume = <<>>
    THEN [kind |-> "interrupt",
          payload |-> [question |-> "Is this correct?", name |-> n,
                       birthday |-> b, tool_call_id |-> tool_call_id],
          update |-> NoUpdate]
    ELSE
    LET human_response == resume[1]
        correct == StrLower(Get(human_response, "correct", <<>>))
        yes == \E i \in 1..Len(correct) : correct[i] = "y"
    IN  [kind |-> "command",
         payload |-> NoPayload,
         update |-> [name |-> IF yes THEN n ELSE Get(human_response, "name", n),
                     birthday |-> IF yes THEN b
                                  ELSE Get(human_response, "birthday", b),
                     messages |-> <<ToolMessage(
                         IF yes THEN Text("Correct")
                         ELSE Fmt("Made a correction: ", human_response),
                         HUMAN_ASSISTANCE, tool_call_id)>>]]

human_assistance(n, b, tool_call_id, resume) ==
    IF resume = <<>>
    THEN [kind |-> "interrupt",
          payload |-> [question |-> "Is this correct?", name |-> n,
                       birthday |-> b, tool_call_id |-> tool_call_id],
          update |-> NoUpdate]
    ELSE
    LET human_response == resume[1]
        yes == StartsWith(StrLower(Get(human_response, "correct", <<>>)), "y")
        verified_name == IF yes THEN n ELSE Get(human_response, "name", n)
        verified_birthday == IF yes THEN b ELSE Get(human_response, "birthday", b)
        response == IF yes THEN Text("Correct")
                    ELSE Fmt("Made a correction: ", human_response)
    IN  [kind |-> "command",
         payload |-> NoPayload,
         update |-> [name |-> verified_name,
                     birthday |-> verified_birthday,
                     messages |-> <<ToolMessage(response, HUMAN_ASSISTANCE,
                                                tool_call_id)>>]]

-----------------------------------------------------------------------------
(* Part 5: the prebuilt ToolNode over tools5. It runs every tool call of   *)
(* the last message; an unregistered name or a raising tool gives an error *)
(* ToolMessage, a Command returned by a tool is passed on as an update, and *)
(* an interrupt raised by a tool pauses the node.                          *)

ToolCallResult(by_name, call, outcome, resume) ==
    IF call.name \notin DOMAIN by_name
    THEN [kind |-> "message", payload |-> NoPayload,
          update |-> [NoUpdate EXCEPT !.messages =
              <<ToolMessage(Text("Error: not a valid tool"), call.name, call.id)>>]]
    ELSE IF call.name = HUMAN_ASSISTANCE
    THEN human_assistance(call.args["name"], call.args["birthday"], call.id, resume)
    ELSE IF outcome = "raise"
    THEN [kind |-> "message", payload |-> NoPayload,
          update |-> [NoUpdate EXCEPT !.messages =
              <<ToolMessage(Text("Error: tool raised"), call.name, call.id)>>]]
    ELSE [kind |-> "message", payload |-> NoPayload,
          update |-> [NoUpdate EXCEPT !.messages =
              <<ToolMessage(json_dumps(invoke(by_name[call.name], call.args)),
                            call.name, call.id)>>]]

RECURSIVE Combine(_)
\* The updates of the tool calls, applied in order.
Combine(rs) ==
    IF rs = <<>> THEN NoUpdate
    ELSE LET rest == Combine(Tail(rs))
             u == Head(rs).update
         IN  [messages |-> u.messages \o rest.messages,
              name |-> IF rest.name # Absent THEN rest.name ELSE u.name,
              birthday |-> IF rest.birthday # Absent THEN rest.birthday
                           ELSE u.birthday]

IsInterrupt(r) == r.kind = "interrupt"

ToolNode(tools, state, oracle, resume) ==
    LET by_name == tools_by_name(tools)
        calls == Last(state["messages"]).tool_calls
        rs == [i \in 1..Len(calls) |->
                  ToolCallResult(by_name, calls[i], oracle[i], resume)]
        paused == SelectSeq(rs, IsInterrupt)
    IN  IF paused # <<>>
        THEN [status |-> "interrupt",
              payloads |-> [i \in 1..Len(paused) |-> paused[i].payload],
              invoked |-> [i \in 1..Len(calls) |-> calls[i].id],
              update |-> NoUpdate]
        ELSE [status |-> "none",
              payloads |-> <<>>,
              invoked |-> [i \in 1..Len(calls) |-> calls[i].id],
              update |-> Combine(rs)]

-----------------------------------------------------------------------------
(* The graphs: graph_builder's edges.                                      *)

\* the tools node wired to END instead of back to chatbot
Edges_tools_to_end == {<<START, "chatbot">>, <<"tools", END>>}

\* add_node("chatbot", chatbot); add_node("tools", tool_node): both
\* notebooks add these two nodes and no other.
Nodes(notebook) == {"chatbot", "tools"}

\* START wired to both nodes
Edges_fan_out == {<<START, "chatbot">>, <<START, "tools">>, <<"tools", "chatbot">>}

\* add_edge(START, "chatbot"); add_edge("tools", "chatbot")
Edges == {<<START, "chatbot">>, <<"tools", "chatbot">>}

\* a path map that sends the END label back to chatbot
PathMap_loop(label) == IF label = "tools" THEN "tools" ELSE "chatbot"

\* a path map that sends the tools label to a review node
PathMap_review(label) == IF label = "tools" THEN "human_review" ELSE END

\* a path map that sends every label to the tools node
PathMap_tools(label) == "tools"

\* add_conditional_edges("chatbot", route_tools, {"tools": "tools", END: END})
PathMap(label) == IF label = "tools" THEN "tools" ELSE END

\* Where control can go from `node`: along its edge, and from chatbot
\* along either branch of the conditional edge.
Successors(node) ==
    {t \in {"chatbot", "tools", END} : <<node, t>> \in Edges}
    \cup (IF node = "chatbot" THEN {PathMap(label) : label \in {"tools", END}}
          ELSE {})

\* What can be reached from `node` in one step or more.
ReachableFrom(node) ==
    LET More(S) == S \cup UNION {Successors(n) : n \in S}
    IN  More(More(More(Successors(node))))

\* The node the edge out of `node` leads to.
EdgeTarget(node) == CHOOSE t \in {"chatbot", "tools", END} : <<node, t>> \in Edges

\* The conditional edge out of chatbot, on the state with chatbot's update.
Branch(notebook, state) ==
    IF notebook = 2 THEN route_tools(AsDict(state)) ELSE tools_condition(state)

\* a channel that drops what is written to it
Written_dropped(old, new) == old

\* A channel's value after an update: messages through add_messages, name
\* and birthday overwritten when the update writes them.
Written(old, new) == IF new = Absent THEN old ELSE new

-----------------------------------------------------------------------------
(* Part 5's checkpointer: graph = graph_builder.compile(checkpointer=      *)
(* MemorySaver()).  Every call on the graph names a thread in its config;  *)
(* the saver keeps one checkpoint per thread id: the State's channels, the *)
(* position of the run and the pending interrupts.                         *)

ThreadIds == {"1", "2"}

\* config = {"configurable": {"thread_id": "1"}}
config(thread_id) == [configurable |-> [thread_id |-> thread_id]]

\* The checkpoint of a thread no call was made on.
NoCheckpoint ==
    [pc |-> "idle", messages |-> <<>>, name |-> Absent, birthday |-> Absent,
     interrupts |-> <<>>]

NoCall == [op |-> "none", thread_id |-> Absent, arg |-> Absent, result |-> Absent]

\* a saver that keeps one checkpoint for all threads
put_shared(store, cfg, checkpoint) == [t \in DOMAIN store |-> checkpoint]

\* The saver stores a checkpoint under the config's thread id.
put(store, cfg, checkpoint) ==
    [store EXCEPT ![cfg.configurable.thread_id] = checkpoint]

\* graph.get_state(config): the snapshot of the thread's checkpoint.
get_state(store, cfg) ==
    LET cp == store[cfg.configurable.thread_id]
    IN  [values |-> IF cp.pc = "idle" THEN [k \in {} |-> Absent]
                    ELSE State(cp.messages, cp.name, cp.birthday),
         next |-> CASE cp.pc \in {"chatbot", "tools"} -> <<cp.pc>>
                    [] cp.pc = "interrupted"          -> <<"tools">>
                    [] OTHER                          -> <<>>]

\* an update that replaces the State by the given values
update_state_replace(checkpoint, values) ==
    [checkpoint EXCEPT !.messages = Get(values, "messages", <<>>),
                       !.name = Get(values, "name", Absent),
                       !.birthday = Get(values, "birthday", Absent)]

\* graph.update_state(config, values): the values are written to their
\* channels as a node's update is; the run stays where it is.
update_state(checkpoint, values) ==
    [checkpoint EXCEPT
        !.messages = add_messages(checkpoint.messages,
                                  Get(values, "messages", <<>>)),
        !.name = Written(checkpoint.name, Get(values, "name", Absent)),
        !.birthday = Written(checkpoint.birthday,
                             Get(values, "birthday", Absent))]

\* The reviewer's answers in the runs under thread ids: an acceptance and a
\* correction of both fields.
ReviewAnswers ==
    {[correct |-> <<"y">>]}
    \cup {[correct |-> <<"n", "o">>, name |-> n, birthday |-> b] :
             n \in HumanNames, b \in HumanBirthdays}

\* The values a cell may pass to update_state: a dict with name, birthday
\* or both.
StateUpdates ==
    {[k \in ks |-> IF k = "name" THEN n ELSE b] :
        ks \in SUBSET {"name", "birthday"} \ {{}},
        n \in HumanNames, b \in HumanBirthdays}

-----------------------------------------------------------------------------
(* Part 2's _set_env and the process environment.                          *)

EnvVars == {"TAVILY_API_KEY", "ANTHROPIC_API_KEY"}
\* What a variable may hold and what the user may enter at the prompt: the
\* empty string or a key.
EnvValues == {"", "key-1", "key-2"}

\* os.environ.get(var)
environ_get(env, var) == IF env[var] = Absent THEN "None" ELSE env[var]
\* not value, for a string or None
Not(value) == value \in {"None", ""}

\* _set_env prompting only for a variable that is not set at all
_set_env_if_missing(env, var, entered) ==
    IF env[var] = Absent
    THEN [environ |-> [env EXCEPT ![var] = entered],
          prompts |-> <<[prompt |-> <<var, ": ">>, entered |-> entered]>>]
    ELSE [environ |-> env, prompts |-> <<>>]

\* _set_env(var), `entered` being what getpass returns if it is called:
\* the environment after the call and the prompts shown during it.
_set_env(env, var, entered) ==
    IF Not(environ_get(env, var))
    THEN [environ |-> [env EXCEPT ![var] = entered],
          prompts |-> <<[prompt |-> <<var, ": ">>, entered |-> entered]>>]
    ELSE [environ |-> env, prompts |-> <<>>]

-----------------------------------------------------------------------------
(* The state machine.                                                      *)

\* Nothing has run yet.
Fresh ==
    /\ nb \in {2, 5}
    /\ pc = "idle"
    /\ messages = <<>>
    /\ name = Absent
    /\ birthday = Absent
    /\ routed = "none"
    /\ interrupts = <<>>
    /\ executed = <<>>
    /\ run = 0
    /\ prompt = <<>>
    /\ invoked = <<>>
    /\ delivered = {}
    /\ resume_value = <<>>
    /\ error = "none"
    /\ memory = [t \in ThreadIds |-> NoCheckpoint]
    /\ reviewed = [t \in ThreadIds |-> <<>>]
    /\ last_call = NoCall
    /\ loop = IF nb = 2 THEN "input" ELSE "none"
    /\ user_input = <<>>
    /\ printed = <<>>
    /\ caught = "none"
    /\ prompts = <<>>

\* The graphs are run with the API keys in the environment.
Init ==
    /\ Fresh
    /\ environ = [var \in EnvVars |-> "key-1"]

\* a new run that starts from the State the previous run left, as a graph
\* compiled with a checkpointer would
StartRun_with_memory(question) ==
    /\ run' = run + 1
    /\ messages' = add_messages(messages, <<HumanMessage(question)>>)
    /\ pc' = EdgeTarget(START)
    /\ routed' = "none"
    /\ executed' = <<>>
    /\ prompt' = <<>>
    /\ invoked' = <<>>
    /\ resume_value' = <<>>
    /\ error' = "none"
    /\ UNCHANGED <<nb, name, birthday, interrupts, delivered>>
    /\ UNCHANGED <<thread_vars, env_vars>>

\* graph.stream({"messages": [{"role": "user", "content": question}]}, ...):
\* a new run. Without a checkpointer (part 2) the run starts from an empty
\* State; with MemorySaver (part 5) from the State saved for the thread.
StartRun(question) ==
    /\ run' = run + 1
    /\ messages' = add_messages(IF nb = 2 THEN <<>> ELSE messages,
                                <<HumanMessage(question)>>)
    /\ pc' = EdgeTarget(START)
    /\ routed' = "none"
    /\ executed' = <<>>
    /\ prompt' = <<>>
    /\ invoked' = <<>>
    /\ resume_value' = <<>>
    /\ error' = "none"
    /\ UNCHANGED <<nb, name, birthday, interrupts, delivered>>
    /\ UNCHANGED <<thread_vars, env_vars>>

\* Part 5: a cell streams a new user input when no run is in progress: at
\* first and after a run has reached END.
Stream(question) ==
    /\ nb = 5
    /\ run < MaxRuns
    /\ pc \in {"idle", END}
    /\ StartRun(question)
    /\ UNCHANGED loop_vars

\* user_input.lower() in ["quit", "exit", "q"], without the lower()
is_sentinel_exact(line) ==
    line \in {<<"q", "u", "i", "t">>, <<"e", "x", "i", "t">>, <<"q">>}

\* user_input.lower() in ["quit", "exit", "q"]
is_sentinel(line) ==
    StrLower(line) \in {<<"q", "u", "i", "t">>, <<"e", "x", "i", "t">>, <<"q">>}

\* Part 2's loop, try branch: user_input = input("User: ") returns a line;
\* a sentinel ends the loop, any other line goes to stream_graph_updates.
Input(line) ==
    /\ nb = 2
    /\ loop = "input"
    /\ user_input' = line
    /\ caught' = caught
    /\ IF is_sentinel(line)
       THEN /\ printed' = << <<"Goodbye!">> >>
            /\ loop' = "done"
            /\ UNCHANGED <<graph_vars, thread_vars, env_vars>>
       ELSE /\ run < MaxRuns
            /\ printed' = <<>>
            /\ loop' = "try"
            /\ StartRun(line)

\* The except branch: the canned question is printed and streamed.
Handle(exception) ==
    /\ caught' = exception
    /\ user_input' = Fallback
    /\ printed' = Append(printed, <<"User: ", Fallback>>)
    /\ loop' = "except"
    /\ StartRun(Fallback)

\* Part 2's loop: input("User: ") raises (no stdin in the kernel).
InputRaises ==
    /\ nb = 2
    /\ loop = "input"
    /\ Handle("input")

\* Part 2's loop: an exception raised in stream_graph_updates under try
\* reaches the bare except clause.
Except ==
    /\ nb = 2
    /\ loop = "try"
    /\ pc = "error"
    /\ Handle(error)

\* the except branch without its break: back at input() after the fallback
Exhausted_no_break(l) == IF l \in {"try", "except"} THEN "input" ELSE l

\* Where the loop is once the stream of stream_graph_updates is exhausted:
\* back at input() under try, after the break under except.
Exhausted(l) == CASE l = "try" -> "input" [] l = "except" -> "done" [] OTHER -> l
\* Where the loop is once a node has raised: under except nothing catches.
Raising(l) == IF l = "except" THEN "raised" ELSE l
\* a line printed for every message of a node's update
Printing_all(notebook, lines, update) ==
    IF notebook = 2
    THEN lines \o [i \in 1..Len(update["messages"]) |->
                      <<"Assistant:", update["messages"][i].content>>]
    ELSE lines

\* print("Assistant:", value["messages"][-1].content) for a node's update
Printing(notebook, lines, update) ==
    IF notebook = 2
    THEN Append(lines, <<"Assistant:", Last(update["messages"]).content>>)
    ELSE lines

\* The chatbot node, its update and the conditional edge out of it.
Chatbot ==
    /\ pc = "chatbot"
    /\ \E out \in {o \in LLMOutcomes(messages) :
                      Len(messages) < MaxMsgs \/ o.message.tool_calls = <<>>} :
          LET state == State(messages, name, birthday)
              r == IF nb = 2 THEN chatbot2(state, out) ELSE chatbot5(state, out)
              new == add_messages(messages, r.update.messages)
              label == Branch(nb, State(new, name, birthday))
          IN  /\ prompt' = r.prompt
              /\ IF r.status # "none"
                 THEN /\ pc' = "error"
                      /\ error' = r.status
                      /\ loop' = Raising(loop)
                      /\ UNCHANGED <<messages, routed, executed, printed>>
                 ELSE /\ messages' = new
                      /\ executed' = Append(executed, "chatbot")
                      /\ routed' = label
                      /\ pc' = PathMap(label)
                      /\ error' = "none"
                      /\ printed' = Printing(nb, printed, r.update)
                      /\ loop' = IF PathMap(label) = END THEN Exhausted(loop)
                                 ELSE loop
    /\ UNCHANGED <<nb, name, birthday, interrupts, run, invoked, delivered,
                   resume_value>>
    /\ UNCHANGED <<thread_vars, user_input, caught, env_vars>>

\* Part 2: the tools node (BasicToolNode) and the edge out of it.
Tools2 ==
    /\ nb = 2
    /\ pc = "tools"
    /\ \E oracle \in [1..Len(Last(messages).tool_calls) -> {"ok", "raise"}] :
          LET r == BasicToolNode(tools2, State(messages, name, birthday), oracle)
          IN  /\ invoked' = r.invoked
              /\ IF r.status # "none"
                 THEN /\ pc' = "error"
                      /\ error' = r.status
                      /\ loop' = Raising(loop)
                      /\ UNCHANGED <<messages, executed, printed>>
                 ELSE /\ messages' = add_messages(messages, r.update.messages)
                      /\ executed' = Append(executed, "tools")
                      /\ pc' = EdgeTarget("tools")
                      /\ error' = "none"
                      /\ printed' = Printing(nb, printed, r.update)
                      /\ loop' = loop
    /\ UNCHANGED <<nb, name, birthday, routed, interrupts, run, prompt, delivered,
                   resume_value>>
    /\ UNCHANGED <<thread_vars, user_input, caught, env_vars>>

\* Part 5: the tools node (ToolNode): it completes, or pauses at an interrupt.
Tools5 ==
    /\ nb = 5
    /\ pc = "tools"
    /\ \E oracle \in [1..Len(Last(messages).tool_calls) -> {"ok", "raise"}] :
          LET r == ToolNode(tools5, State(messages, name, birthday), oracle, <<>>)
          IN  /\ invoked' = r.invoked
              /\ IF r.status = "interrupt"
                 THEN /\ pc' = "interrupted"
                      /\ interrupts' = r.payloads
                      /\ UNCHANGED <<messages, name, birthday, executed>>
                 ELSE /\ messages' = add_messages(messages, r.update.messages)
                      /\ name' = Written(name, r.update.name)
                      /\ birthday' = Written(birthday, r.update.birthday)
                      /\ executed' = Append(executed, "tools")
                      /\ pc' = EdgeTarget("tools")
                      /\ UNCHANGED interrupts
    /\ resume_value' = <<>>
    /\ UNCHANGED <<nb, routed, run, prompt, delivered, error>>
    /\ UNCHANGED <<thread_vars, loop_vars, env_vars>>

\* a resume that starts the graph again at START instead of at the paused
\* tools node
Resume_from_start(human_response) ==
    /\ nb = 5
    /\ pc = "interrupted"
    /\ pc' = EdgeTarget(START)
    /\ delivered' = delivered \cup
                       {interrupts[i].tool_call_id : i \in 1..Len(interrupts)}
    /\ interrupts' = <<>>
    /\ resume_value' = <<human_response>>
    /\ UNCHANGED <<nb, messages, name, birthday, routed, executed, run, prompt,
                   invoked, error>>
    /\ UNCHANGED <<thread_vars, loop_vars, env_vars>>

\* Part 5: graph.stream(Command(resume=human_response), config): the paused
\* tools node runs again, interrupt() now returning the resume value.
Resume(human_response) ==
    /\ nb = 5
    /\ pc = "interrupted"
    /\ \E oracle \in [1..Len(Last(messages).tool_calls) -> {"ok", "raise"}] :
          LET r == ToolNode(tools5, State(messages, name, birthday), oracle,
                            <<human_response>>)
          IN  /\ invoked' = r.invoked
              /\ messages' = add_messages(messages, r.update.messages)
              /\ name' = Written(name, r.update.name)
              /\ birthday' = Written(birthday, r.update.birthday)
              /\ executed' = Append(executed, "tools")
              /\ pc' = EdgeTarget("tools")
    /\ delivered' = delivered \cup
                       {interrupts[i].tool_call_id : i \in 1..Len(interrupts)}
    /\ interrupts' = <<>>
    /\ resume_value' = <<human_response>>
    /\ UNCHANGED <<nb, routed, run, prompt, error>>
    /\ UNCHANGED <<thread_vars, loop_vars, env_vars>>

Next ==
    \/ \E question \in UserInputs : Stream(question)
    \/ \E line \in Lines : Input(line)
    \/ InputRaises
    \/ Except
    \/ Chatbot
    \/ Tools2
    \/ Tools5
    \/ \E human_response \in HumanResponses : Resume(human_response)

Spec == Init /\ [][Next]_vars

-----------------------------------------------------------------------------
(* Part 5's graph called under thread ids: the same nodes and edges, every *)
(* step reading the thread's checkpoint and saving the new one.            *)

RECURSIVE Stored(_, _)
\* The number of messages the saver holds for the threads of T.
Stored(store, T) ==
    IF T = {} THEN 0
    ELSE LET t == CHOOSE x \in T : TRUE
         IN  Len(store[t].messages) + Stored(store, T \ {t})

\* The cells run one after the other: a cell calls the graph when no run
\* is between two nodes, that is after the last stream call has run to END,
\* to an interrupt or to an exception.
Returned(store) == \A t \in DOMAIN store : store[t].pc \notin {"chatbot", "tools"}

\* graph.stream({"messages": [...]}, config): a new run on the thread, from
\* the State saved for it.
StreamThread(thread_id, question) ==
    LET cp == memory[thread_id]
    IN  /\ Returned(memory)
        /\ run < MaxRuns
        /\ cp.pc \in {"idle", END}
        /\ run' = run + 1
        /\ memory' = put(memory, config(thread_id),
               [cp EXCEPT !.messages = add_messages(cp.messages,
                                          <<HumanMessage(question)>>),
                          !.pc = EdgeTarget(START)])
        /\ last_call' = [op |-> "stream", thread_id |-> thread_id,
                         arg |-> question, result |-> Absent]
        /\ UNCHANGED <<nb, pc, messages, name, birthday, routed, interrupts,
                       executed, prompt, invoked, delivered, resume_value,
                       error, reviewed, loop_vars, env_vars>>

\* The chatbot node and the conditional edge out of it, on a thread.
ChatbotThread(thread_id) ==
    LET cp == memory[thread_id]
    IN  /\ cp.pc = "chatbot"
        /\ Stored(memory, ThreadIds) < MaxMsgs
        /\ \E out \in LLMOutcomes(cp.messages) :
              LET r == chatbot5(State(cp.messages, cp.name, cp.birthday), out)
                  new == add_messages(cp.messages, r.update.messages)
                  label == Branch(5, State(new, cp.name, cp.birthday))
              IN  memory' = put(memory, config(thread_id),
                      IF r.status # "none" THEN [cp EXCEPT !.pc = "error"]
                      ELSE [cp EXCEPT !.messages = new, !.pc = PathMap(label)])
        /\ UNCHANGED <<graph_vars, reviewed, last_call, loop_vars, env_vars>>

\* The tools node on a thread: it completes, or pauses at an interrupt.
ToolsThread(thread_id) ==
    LET cp == memory[thread_id]
    IN  /\ cp.pc = "tools"
        /\ \E oracle \in [1..Len(Last(cp.messages).tool_calls) -> {"ok", "raise"}] :
              LET r == ToolNode(tools5, State(cp.messages, cp.name, cp.birthday),
                                oracle, <<>>)
              IN  memory' = put(memory, config(thread_id),
                      IF r.status = "interrupt"
                      THEN [cp EXCEPT !.pc = "interrupted",
                                      !.interrupts = r.payloads]
                      ELSE [cp EXCEPT
                               !.messages = add_messages(cp.messages,
                                                         r.update.messages),
                               !.name = Written(cp.name, r.update.name),
                               !.birthday = Written(cp.birthday, r.update.birthday),
                               !.pc = EdgeTarget("tools")])
        /\ UNCHANGED <<graph_vars, reviewed, last_call, loop_vars, env_vars>>

\* graph.stream(Command(resume=human_response), config): the tools node
\* paused on the thread runs again with the resume value.
ResumeThread(thread_id, human_response) ==
    LET cp == memory[thread_id]
    IN  /\ Returned(memory)
        /\ cp.pc = "interrupted"
        /\ \E oracle \in [1..Len(Last(cp.messages).tool_calls) -> {"ok", "raise"}] :
              LET r == ToolNode(tools5, State(cp.messages, cp.name, cp.birthday),
                                oracle, <<human_response>>)
              IN  /\ memory' = put(memory, config(thread_id),
                         [cp EXCEPT
                             !.messages = add_messages(cp.messages,
                                                       r.update.messages),
                             !.name = Written(cp.name, r.update.name),
                             !.birthday = Written(cp.birthday, r.update.birthday),
                             !.interrupts = <<>>,
                             !.pc = EdgeTarget("tools")])
                  /\ reviewed' = [reviewed EXCEPT ![thread_id] =
                         <<[name |-> r.update.name,
                            birthday |-> r.update.birthday]>>]
        /\ last_call' = [op |-> "resume", thread_id |-> thread_id,
                         arg |-> human_response, result |-> Absent]
        /\ UNCHANGED <<graph_vars, loop_vars, env_vars>>

\* snapshot = graph.get_state(config)
GetState(thread_id) ==
    /\ Returned(memory)
    /\ last_call' = [op |-> "get_state", thread_id |-> thread_id, arg |-> Absent,
                result |-> get_state(memory, config(thread_id))]
    /\ UNCHANGED <<graph_vars, memory, reviewed, loop_vars, env_vars>>

\* graph.update_state(config, values), on a thread that has a checkpoint.
UpdateState(thread_id, values) ==
    /\ Returned(memory)
    /\ memory[thread_id].pc # "idle"
    /\ memory' = put(memory, config(thread_id),
                     update_state(memory[thread_id], values))
    /\ reviewed' = [reviewed EXCEPT ![thread_id] = <<>>]
    /\ last_call' = [op |-> "update_state", thread_id |-> thread_id,
                    arg |-> values, result |-> Absent]
    /\ UNCHANGED <<graph_vars, loop_vars, env_vars>>

InitThreads == Init /\ nb = 5

NextThreads ==
    \/ \E t \in ThreadIds, question \in UserInputs : StreamThread(t, question)
    \/ \E t \in ThreadIds : ChatbotThread(t)
    \/ \E t \in ThreadIds : ToolsThread(t)
    \/ \E t \in ThreadIds, human_response \in ReviewAnswers :
          ResumeThread(t, human_response)
    \/ \E t \in ThreadIds : GetState(t)
    \/ \E t \in ThreadIds, values \in StateUpdates : UpdateState(t, values)

SpecThreads == InitThreads /\ [][NextThreads]_vars

-----------------------------------------------------------------------------
(* The notebooks' functions called on their own, on any input a caller     *)
(* could hand them: route_tools and BasicToolNode of part 2 and the two    *)
(* chatbot functions.  What a call returns does not depend on the calls    *)
(* before it, so each behaviour makes one call.                            *)

\* The messages of the inputs: a user message, the model's replies with 0
\* to MaxCalls tool calls, a tool's answer.
SomeMessages ==
    {HumanMessage(q) : q \in UserInputs}
    \cup LLMReplies(<<>>)
    \cup {ToolMessage(json_dumps(invoke(tool, [query |-> "LangGraph"])),
                      TAVILY, CallId(<<>>, 1))}

\* The histories of the inputs: empty, one message, or a user message and
\* one more.
Histories ==
    {<<>>} \cup {<<m>> : m \in SomeMessages}
    \cup {<<HumanMessage(q), m>> : q \in UserInputs, m \in SomeMessages}

\* The dicts handed in as State: with a messages key or without.
Inputs == {[messages |-> h] : h \in Histories} \cup {[k \in {} |-> <<>>]}

\* The tool calls BasicToolNode would loop over.
CallsOf(inputs) ==
    LET msgs == Get(inputs, "messages", <<>>)
    IN  IF msgs # <<>> /\ HasToolCallsAttr(Last(msgs))
        THEN Last(msgs).tool_calls ELSE <<>>

\* route_tools(state), state a list of messages or a dict
CallRouteTools(state) ==
    /\ nb = 2
    /\ last_call = NoCall
    /\ last_call' = [op |-> "route_tools", thread_id |-> Absent,
                     arg |-> state, result |-> route_tools(state)]
    /\ UNCHANGED <<graph_vars, memory, reviewed, loop_vars, env_vars>>

\* tool_node(inputs)
CallBasicToolNode(inputs, oracle) ==
    /\ nb = 2
    /\ last_call = NoCall
    /\ last_call' = [op |-> "BasicToolNode", thread_id |-> Absent,
                     arg |-> [inputs |-> inputs, oracle |-> oracle],
                     result |-> BasicToolNode(tools2, inputs, oracle)]
    /\ UNCHANGED <<graph_vars, memory, reviewed, loop_vars, env_vars>>

\* chatbot(state)
CallChatbot(state, out) ==
    /\ last_call = NoCall
    /\ last_call' = [op |-> "chatbot", thread_id |-> Absent,
                     arg |-> [state |-> state, out |-> out],
                     result |-> IF nb = 2 THEN chatbot2(state, out)
                                ELSE chatbot5(state, out)]
    /\ UNCHANGED <<graph_vars, memory, reviewed, loop_vars, env_vars>>

NextCalls ==
    \/ \E h \in Histories : CallRouteTools(AsList(h))
    \/ \E d \in Inputs : CallRouteTools(AsDict(d))
    \/ \E inputs \in Inputs :
          \E oracle \in [1..Len(CallsOf(inputs)) -> {"ok", "raise"}] :
              CallBasicToolNode(inputs, oracle)
    \/ \E h \in Histories \ {<<>>} :
          \E out \in LLMOutcomes(h) : CallChatbot([messages |-> h], out)

SpecCalls == Init /\ [][NextCalls]_vars

-----------------------------------------------------------------------------
(* _set_env called in any environment, any number of times.                *)

\* _set_env(var); the call's result here is the prompts it showed.
SetEnv(var, entered) ==
    LET r == _set_env(environ, var, entered)
    IN  /\ Len(prompts) + Len(r.prompts) <= MaxPrompts
        /\ environ' = r.environ
        /\ prompts' = prompts \o r.prompts
        /\ last_call' = [op |-> "_set_env", thread_id |-> Absent,
                         arg |-> var, result |-> r.prompts]
        /\ UNCHANGED <<graph_vars, memory, reviewed, loop_vars>>

InitEnv ==
    /\ Fresh
    /\ nb = 2
    /\ environ \in [EnvVars -> EnvValues \cup {Absent}]

NextEnv == \E var \in EnvVars, entered \in EnvValues : SetEnv(var, entered)

SpecEnv == InitEnv /\ [][NextEnv]_vars

-----------------------------------------------------------------------------
(* The claims.                                                             *)

\* The index of the last AI message of a history that has one.
LastAI(msgs) ==
    CHOOSE k \in 1..Len(msgs) :
        /\ msgs[k].type = "ai"
        /\ \A j \in (k + 1)..Len(msgs) : msgs[j].type # "ai"

CarriesToolCall(m) == \E i \in DOMAIN m.tool_calls : TRUE

\* C1: on every non-empty history, given as a State dict or as a list,
\* route_tools returns "tools" exactly when the last message carries at
\* least one tool call, and END otherwise; and in part 2, once the chatbot
\* node has completed, a last message with a tool call has sent the run to
\* the tools node and one without to END.
C1_RouterDecision ==
    messages # <<>> =>
        LET label == route_tools(AsDict(State(messages, name, birthday)))
        IN  /\ label \in {"tools", END}
            /\ route_tools(AsList(messages)) = label
            /\ (label = "tools") <=> CarriesToolCall(Last(messages))
            /\ (nb = 2 /\ executed # <<>> /\ Last(executed) = "chatbot") =>
                  /\ routed = label
                  /\ CarriesToolCall(Last(messages)) =>
                        pc \in {"tools", "error"}
                  /\ ~CarriesToolCall(Last(messages)) => pc = END

\* C1 witness: in part 2 the chatbot's reply carried a tool call and the
\* run stands at the tools node.
C1_Witness ==
    /\ nb = 2
    /\ pc = "tools"
    /\ routed = "tools"
    /\ Last(executed) = "chatbot"
    /\ Len(Last(messages).tool_calls) >= 1

\* C2: in part 2, when the tools node has completed, the history ends with
\* the last AI message followed by exactly one tool message per tool call of
\* that message, in the order of the calls, the i-th with the id and the
\* name of the i-th call and with the serialised result of the registered
\* tool of that name; and the tools invoked were those calls and no others.
C2_ToolNodeResults ==
    (nb = 2 /\ executed # <<>> /\ Last(executed) = "tools") =>
        LET k == LastAI(messages)
            calls == messages[k].tool_calls
            by_name == tools_by_name(tools2)
        IN  /\ Len(messages) = k + Len(calls)
            /\ invoked = [i \in 1..Len(calls) |-> calls[i].id]
            /\ \A i \in 1..Len(calls) :
                  /\ messages[k + i].type = "tool"
                  /\ messages[k + i].tool_call_id = calls[i].id
                  /\ messages[k + i].name = calls[i].name
                  /\ calls[i].name \in DOMAIN by_name
                  /\ by_name[calls[i].name].name = calls[i].name
                  /\ messages[k + i].content =
                        json_dumps(invoke(by_name[calls[i].name], calls[i].args))

\* C2 witness: in part 2 the tools node completed for a message with two
\* tool calls while an earlier message of the history had tool calls too.
C2_Witness ==
    /\ nb = 2
    /\ executed # <<>>
    /\ Last(executed) = "tools"
    /\ Len(messages[LastAI(messages)].tool_calls) = 2
    /\ \E j \in 1..(LastAI(messages) - 1) : Len(messages[j].tool_calls) >= 1

\* C3: every execution of the chatbot node passes the complete current
\* history to the model; when it returns, the history is the old history
\* with exactly one message appended, a reply of the model to that history;
\* when it raises, the history is unchanged.
C3_ChatbotAppendsReply ==
    [][pc = "chatbot" /\ pc' # "chatbot" =>
          /\ prompt' = messages
          /\ IF pc' = "error"
             THEN messages' = messages
             ELSE /\ Len(messages') = Len(messages) + 1
                  /\ SubSeq(messages', 1, Len(messages)) = messages
                  /\ Last(messages') \in LLMReplies(messages)]_vars

\* C3 witness: the chatbot node completed on a history of three messages.
C3_Witness ==
    /\ executed # <<>>
    /\ Last(executed) = "chatbot"
    /\ Len(messages) = 4
    /\ prompt = SubSeq(messages, 1, 3)

\* The history s is the beginning of the history t: message by message,
\* the same kind of message and the same message.
IsPrefix(s, t) ==
    /\ Len(s) <= Len(t)
    /\ \A i \in 1..Len(s) : t[i].type = s[i].type /\ t[i] = s[i]

\* C4: within a run, interrupt and resume included, every step leaves the
\* earlier history a prefix of the later one.
C4_HistoryAppendOnly ==
    [][run' = run => IsPrefix(messages, messages')]_vars

\* C4 witness: in part 5 a run was interrupted and resumed and its history
\* has grown to four messages.
C4_Witness ==
    /\ nb = 5
    /\ delivered # {}
    /\ Len(executed) >= 3
    /\ Len(messages) >= 4

\* C5: the first node to complete in a run is chatbot, the node that
\* completes next after tools is always chatbot, and after the tools node
\* the run never stands at END or at tools again.
C5_GraphOrdering ==
    /\ (run >= 1 /\ executed = <<>>) => pc \in {"chatbot", "error"}
    /\ executed # <<>> => executed[1] = "chatbot"
    /\ \A i \in 1..(Len(executed) - 1) :
          executed[i] = "tools" => executed[i + 1] = "chatbot"
    /\ (executed # <<>> /\ Last(executed) = "tools") => pc \in {"chatbot", "error"}

\* C5 witness: a run in which chatbot, tools and chatbot completed in turn.
C5_Witness ==
    /\ Len(executed) >= 3
    /\ executed[1] = "chatbot"
    /\ executed[2] = "tools"
    /\ executed[3] = "chatbot"

\* C6: once the conditional edge has returned END the run stands at END,
\* and until a new run is started no node completes and neither the
\* history nor the other state fields change.
C6_EndCeases ==
    [][(routed = END /\ run' = run) =>
          /\ pc = END
          /\ UNCHANGED <<pc, messages, name, birthday, executed, prompt, invoked>>]_vars

\* C6 witness: a run that went through the tools node has reached END.
C6_Witness ==
    /\ routed = END
    /\ pc = END
    /\ Len(executed) >= 3

\* The human_assistance call of the AI message at position k.
HACall(k) == messages[k].tool_calls[1]

RequestsHA(m) ==
    /\ m.type = "ai"
    /\ Len(m.tool_calls) = 1
    /\ m.tool_calls[1].name = HUMAN_ASSISTANCE

\* C7: in part 5, when the model's reply requests human_assistance the run
\* does not get past the tools node without pausing; while it is paused
\* exactly one payload is surfaced, with the question "Is this correct?"
\* and the name and birthday of that tool call; and in a paused run no node
\* completes and the history does not change before a resume value is
\* delivered.
C7_HumanReviewSuspends ==
    /\ [](nb = 5 /\ messages # <<>> /\ RequestsHA(Last(messages))
             => pc \in {"tools", "interrupted"})
    /\ [](pc = "interrupted" =>
             /\ nb = 5
             /\ RequestsHA(Last(messages))
             /\ Len(interrupts) = 1
             /\ interrupts[1].question = "Is this correct?"
             /\ interrupts[1].name = HACall(Len(messages)).args["name"]
             /\ interrupts[1].birthday = HACall(Len(messages)).args["birthday"]
             /\ interrupts[1].tool_call_id = HACall(Len(messages)).id)
    /\ [][pc = "interrupted" =>
             \/ /\ pc' = "interrupted"
                /\ UNCHANGED <<executed, messages, interrupts>>
             \/ /\ resume_value' # <<>>
                /\ delivered' = delivered \cup {interrupts[1].tool_call_id}]_vars

\* C7 witness: a part 5 run is paused with the proposal of the tool call
\* surfaced.
C7_Witness ==
    /\ nb = 5
    /\ pc = "interrupted"
    /\ Len(interrupts) = 1
    /\ interrupts[1].name = "LangChain"
    /\ interrupts[1].birthday = "January 17, 2024"
    /\ Last(executed) = "chatbot"

\* The resume value's "correct" entry starts with "y" or "Y".
Accepts(human_response) ==
    /\ "correct" \in DOMAIN human_response
    /\ human_response["correct"] # <<>>
    /\ human_response["correct"][1] \in {"y", "Y"}

\* The tools node has just completed under a resume value.
JustResumed ==
    /\ nb = 5
    /\ executed # <<>>
    /\ Last(executed) = "tools"
    /\ resume_value # <<>>

\* C8: after a resume whose "correct" entry starts with "y" or "Y", name and
\* birthday are the values the model proposed in the tool call, whatever
\* name and birthday the resume value holds, and the tool message appended
\* for that call reads "Correct".
C8_AcceptPath ==
    (JustResumed /\ Accepts(resume_value[1])) =>
        LET call == HACall(Len(messages) - 1)
        IN  /\ name = call.args["name"]
            /\ birthday = call.args["birthday"]
            /\ Last(messages).type = "tool"
            /\ Last(messages).tool_call_id = call.id
            /\ Last(messages).content = Text("Correct")

\* C8 witness: the reviewer answered "Yes" and also passed another name and
\* birthday, which were not stored.
C8_Witness ==
    /\ JustResumed
    /\ resume_value[1] = [correct |-> <<"Y", "e", "s">>,
                          name |-> "LangGraph library",
                          birthday |-> "Jan 17, 2024"]
    /\ name = "LangGraph"
    /\ birthday = "January 17, 2024"

\* C9: after a resume without a "correct" entry that starts with "y" or "Y",
\* name is the resume value's name when it has one and the proposed name
\* otherwise, birthday likewise and independently, and the tool message
\* appended for the call reads "Made a correction: " followed by the resume
\* value.
C9_CorrectionPath ==
    (JustResumed /\ ~Accepts(resume_value[1])) =>
        LET call == HACall(Len(messages) - 1)
            hr == resume_value[1]
        IN  /\ name = (IF "name" \in DOMAIN hr THEN hr["name"]
                       ELSE call.args["name"])
            /\ birthday = (IF "birthday" \in DOMAIN hr THEN hr["birthday"]
                           ELSE call.args["birthday"])
            /\ Last(messages).type = "tool"
            /\ Last(messages).tool_call_id = call.id
            /\ Last(messages).content.text = "Made a correction: "
            /\ Last(messages).content.args = <<hr>>

\* C9 witness: the reviewer's "correct" entry holds a "y" but does not start
\* with it, and only a name was supplied: the name is the reviewer's, the
\* birthday the proposed one.
C9_Witness ==
    /\ JustResumed
    /\ resume_value[1] = [correct |-> <<"n", "y">>, name |-> "LangGraph library"]
    /\ name = "LangGraph library"
    /\ birthday = "January 17, 2024"

\* C10: name and birthday are written only by a reviewed call: whenever one
\* of them is set a resume value was delivered, every human_assistance tool
\* message in the history answers a call whose interrupt was resumed, and
\* the call of a pending interrupt has been neither resumed nor answered.
C10_StoredOnlyAfterReview ==
    /\ (name # Absent \/ birthday # Absent) =>
          /\ delivered # {}
          /\ \E i \in 1..Len(messages) :
                /\ messages[i].type = "tool"
                /\ messages[i].name = HUMAN_ASSISTANCE
                /\ messages[i].tool_call_id \in delivered
    /\ \A i \in 1..Len(messages) :
          (messages[i].type = "tool" /\ messages[i].name = HUMAN_ASSISTANCE)
              => messages[i].tool_call_id \in delivered
    /\ pc = "interrupted" =>
          /\ interrupts[1].tool_call_id \notin delivered
          /\ (delivered = {} => name = Absent /\ birthday = Absent)

\* C10 witness: a run is paused at its first review, the proposal not stored.
C10_Witness ==
    /\ nb = 5
    /\ pc = "interrupted"
    /\ delivered = {}
    /\ name = Absent
    /\ birthday = Absent
    /\ interrupts[1].name = "LangGraph"


-----------------------------------------------------------------------------
(* The claims about the checkpointed graph of part 5 (SpecThreads).        *)

\* C11: a snapshot read with get_state is the snapshot of the thread's
\* checkpoint, and from the resume that ended a human review on (through
\* the rest of the run, at END and after it) the snapshot's name and
\* birthday are the values the review verified, until a later review or an
\* update_state call writes them again.
C11_SnapshotHoldsReviewed ==
    /\ last_call.op = "get_state" =>
           last_call.result = get_state(memory, config(last_call.thread_id))
    /\ \A t \in ThreadIds :
           reviewed[t] # <<>> =>
               LET values == get_state(memory, config(t)).values
               IN  /\ {"name", "birthday"} \subseteq DOMAIN values
                   /\ values["name"] = reviewed[t][1].name
                   /\ values["birthday"] = reviewed[t][1].birthday

\* a corrected review, the run finished, the snapshot read
C11_Witness ==
    /\ last_call.op = "get_state"
    /\ memory[last_call.thread_id].pc = END
    /\ reviewed[last_call.thread_id] # <<>>
    /\ last_call.result.values["name"] \in HumanNames
    /\ last_call.result.values["birthday"] \in HumanBirthdays
    /\ last_call.result.next = <<>>

\* C12: update_state can be called on a thread whose run is paused at an
\* interrupt as well as on one whose run has ended; after it the thread's
\* snapshot has the given value under every overridden key and the value
\* it had under every other key (the other scalar field, the message
\* history), the run is where it was, and no other thread changed.
C12_UpdateStateOverrides ==
    [][last_call'.op = "update_state" =>
          LET t == last_call'.thread_id
              values == last_call'.arg
              before == get_state(memory, config(t)).values
              after == get_state(memory', config(t)).values
          IN  /\ DOMAIN after = DOMAIN before \cup DOMAIN values
              /\ \A k \in DOMAIN values : after[k] = values[k]
              /\ \A k \in DOMAIN before \ DOMAIN values : after[k] = before[k]
              /\ memory'[t].pc = memory[t].pc
              /\ memory'[t].interrupts = memory[t].interrupts
              /\ \A s \in ThreadIds \ {t} : memory'[s] = memory[s]]_vars

\* the name overridden while the run is paused, before any review
C12_Witness ==
    /\ last_call.op = "update_state"
    /\ LET cp == memory[last_call.thread_id]
       IN  /\ cp.pc = "interrupted"
           /\ cp.name = last_call.arg["name"]
           /\ cp.birthday = Absent
           /\ Len(cp.messages) = 2
           /\ cp.interrupts # <<>>

\* C13: a step that takes a thread out of its pause is a resume call made
\* with that thread's id, it answers the tool call that thread's interrupt
\* came from, and it leaves the checkpoint of every other thread, paused or
\* not, as it was.
C13_ResumeKeyedByThread ==
    [][\A t \in ThreadIds :
          (memory[t].pc = "interrupted" /\ memory'[t].pc # "interrupted") =>
              /\ last_call'.op = "resume"
              /\ last_call'.thread_id = t
              /\ Len(memory'[t].messages) = Len(memory[t].messages) + 1
              /\ Last(memory'[t].messages).tool_call_id =
                     memory[t].interrupts[1].tool_call_id
              /\ \A s \in ThreadIds \ {t} :
                     /\ memory'[s] = memory[s]
                     /\ reviewed'[s] = reviewed[s]]_vars

\* two threads paused, one of them resumed
C13_Witness ==
    /\ last_call.op = "resume"
    /\ \E t \in ThreadIds, s \in ThreadIds :
          /\ t # s
          /\ last_call.thread_id = t
          /\ memory[t].pc = "chatbot"
          /\ Last(memory[t].messages).type = "tool"
          /\ memory[s].pc = "interrupted"
          /\ memory[s].interrupts # <<>>
          /\ Len(memory[s].messages) = 2

-----------------------------------------------------------------------------
(* The claims about part 2's input loop (Spec, nb = 2).                    *)

\* C14: when input() returns a line that is "quit", "exit" or "q" once
\* lower-cased, the loop prints "Goodbye!" and ends, the graph not run and
\* nothing run afterwards; when it returns any other line, one run starts
\* with that line as its only message, no other run starts during the
\* turn, and when the run has reached END the loop is back at input().
C14_LoopSentinels ==
    /\ [][(nb = 2 /\ loop = "input" /\ loop' \in {"done", "try"}) =>
             IF StrLower(user_input') \in
                    {<<"q", "u", "i", "t">>, <<"e", "x", "i", "t">>, <<"q">>}
             THEN /\ loop' = "done"
                  /\ printed' = << <<"Goodbye!">> >>
                  /\ UNCHANGED graph_vars
             ELSE /\ loop' = "try"
                  /\ run' = run + 1
                  /\ Len(messages') = 1
                  /\ messages'[1].type = "human"
                  /\ messages'[1].content = Text(user_input')
                  /\ pc' = "chatbot"
                  /\ executed' = <<>>]_vars
    /\ [][(nb = 2 /\ loop = "try" /\ loop' \in {"try", "input"}) =>
             /\ run' = run
             /\ user_input' = user_input
             /\ messages'[1] = messages[1]
             /\ loop' = "input" <=> pc' = END]_vars
    /\ [][loop = "done" => UNCHANGED <<graph_vars, loop_vars>>]_vars

\* a turn on a line that only starts like a sentinel, then EXIT
C14_Witness ==
    /\ loop = "done"
    /\ user_input = <<"E", "X", "I", "T">>
    /\ printed = << <<"Goodbye!">> >>
    /\ run = 1
    /\ pc = END
    /\ messages[1].content = Text(<<"q", "u", "i", "t", "s">>)
    /\ caught = "none"

\* C16: a failure during a turn propagates uncaught: the loop's except
\* clause catches nothing that a node of the graph raised.
C16_FailuresPropagate == caught \in {"none", "input"}

-----------------------------------------------------------------------------
(* The claims about the functions called on their own (SpecCalls).         *)

\* The exceptions the notebooks' own raise and assert statements raise.
OwnErrors == {"ValueError", "AssertionError"}

\* C15: the notebooks' own code raises in three places, not one:
\* BasicToolNode raises its ValueError exactly on inputs without a message,
\* route_tools raises a ValueError of its own exactly on a dict state
\* without a message, and part 5's chatbot raises an AssertionError exactly
\* on a reply with more than one tool call; part 2's chatbot raises nothing
\* of its own.
C15_OwnErrors ==
    /\ last_call.op = "route_tools" =>
           (last_call.result \in OwnErrors <=>
               /\ ~last_call.arg.is_list
               /\ Get(last_call.arg.dict, "messages", <<>>) = <<>>)
    /\ last_call.op = "BasicToolNode" =>
           (last_call.result.status \in OwnErrors <=>
               Get(last_call.arg.inputs, "messages", <<>>) = <<>>)
    /\ last_call.op = "chatbot" =>
           (last_call.result.status \in OwnErrors <=>
               /\ nb = 5
               /\ ~last_call.arg.out.raised
               /\ Len(last_call.arg.out.message.tool_calls) > 1)

\* route_tools called on a dict without a messages key
C15_Witness ==
    /\ last_call.op = "route_tools"
    /\ last_call.arg = AsDict([k \in {} |-> <<>>])
    /\ last_call.result = "ValueError"

\* C15 as stated: no function other than BasicToolNode raises an error of
\* its own.
C15_OnlyTheGuardRaises ==
    /\ last_call.op = "route_tools" => last_call.result \notin OwnErrors
    /\ last_call.op = "chatbot" => last_call.result.status \notin OwnErrors

\* C17: BasicToolNode called on inputs whose "messages" is missing or empty
\* raises the ValueError of its guard, has invoked no tool and returns no
\* update; on any other inputs it does not raise that error.
C17_ToolNodeGuard ==
    last_call.op = "BasicToolNode" =>
        IF Get(last_call.arg.inputs, "messages", <<>>) = <<>>
        THEN /\ last_call.result.status = "ValueError"
             /\ last_call.result.invoked = <<>>
             /\ last_call.result.update = NoUpdate
        ELSE last_call.result.status # "ValueError"

\* BasicToolNode called on {"messages": []}
C17_Witness ==
    /\ last_call.op = "BasicToolNode"
    /\ DOMAIN last_call.arg.inputs = {"messages"}
    /\ last_call.arg.inputs["messages"] = <<>>
    /\ last_call.result.status = "ValueError"

-----------------------------------------------------------------------------
(* The claims about the executor and the shape of the graphs (Spec).       *)

\* The nodes the executor has scheduled: the targets of the edges out of
\* what completed last (START when the run has just begun), and the paused
\* tools node of an interrupted run.
Scheduled ==
    IF pc \in {"idle", END, "error"} THEN {}
    ELSE IF pc = "interrupted" THEN {"tools"}
    ELSE LET from == IF executed = <<>> THEN START ELSE Last(executed)
         IN  IF from = "chatbot" THEN {PathMap(routed)} \ {END}
             ELSE {t \in Nodes(nb) : <<from, t>> \in Edges}

\* C18: in every reachable state at most one node is scheduled, and it is
\* the node the run is at; the label of the conditional edge is the
\* router's answer on the State that already holds chatbot's update; and a
\* node that completes has read the State with the previous node's update
\* applied (chatbot was prompted with the whole history, tools ran the tool
\* calls of the last message).
C18_OneNodeAtATime ==
    /\ [](/\ Cardinality(Scheduled) <= 1
          /\ pc \in {"chatbot", "tools"} => Scheduled = {pc}
          /\ (executed # <<>> /\ Last(executed) = "chatbot") =>
                 routed = IF nb = 2
                          THEN route_tools(AsDict(State(messages, name, birthday)))
                          ELSE tools_condition(State(messages, name, birthday)))
    /\ [][Len(executed') = Len(executed) + 1 =>
             IF Last(executed') = "chatbot"
             THEN prompt' = messages
             ELSE invoked' = [i \in 1..Len(Last(messages).tool_calls) |->
                                 Last(messages).tool_calls[i].id]]_vars

\* part 2: chatbot has completed with two tool calls and tools is the one
\* node scheduled
C18_Witness ==
    /\ nb = 2
    /\ pc = "tools"
    /\ Scheduled = {"tools"}
    /\ executed = <<"chatbot">>
    /\ routed = "tools"
    /\ Len(Last(messages).tool_calls) = 2

\* C19: part 5's graph has the same two nodes as part 2's, chatbot and
\* tools, and no third one: a run is only ever at one of the two, and it
\* becomes interrupted only in part 5 from the tools node, while that node
\* runs the human_assistance tool call of the last message.
C19_InterruptInToolsNode ==
    /\ [](/\ Nodes(nb) = {"chatbot", "tools"}
          /\ pc \in Nodes(nb) \cup {"idle", "interrupted", END, "error"}
          /\ \A i \in 1..Len(executed) : executed[i] \in Nodes(nb))
    /\ [][(pc' = "interrupted" /\ pc # "interrupted") =>
             /\ nb = 5
             /\ pc = "tools"
             /\ RequestsHA(Last(messages))
             /\ invoked' = <<HACall(Len(messages)).id>>
             /\ executed' = executed]_vars

\* part 5: paused by the tools node after chatbot completed
C19_Witness ==
    /\ nb = 5
    /\ pc = "interrupted"
    /\ executed = <<"chatbot">>
    /\ routed = "tools"
    /\ invoked = <<HACall(Len(messages)).id>>
    /\ interrupts # <<>>

\* C19 as stated: part 5's graph has a node that is neither the model-call
\* node nor the tool-call node, and a paused run was paused by that node.
C19_ThirdNodeInterrupts ==
    pc = "interrupted" =>
        /\ Nodes(5) \ {"chatbot", "tools"} # {}
        /\ PathMap(routed) \in Nodes(5) \ {"chatbot", "tools"}

-----------------------------------------------------------------------------
(* The claim about _set_env (SpecEnv).                                     *)

\* C20: a call _set_env(var) made while var holds a non-empty value leaves
\* the environment as it is and shows no prompt; made while var is unset or
\* empty it shows exactly one prompt, for var, and sets var to what was
\* entered, no other variable changing; and a call that directly follows a
\* call for the same var shows no prompt, unless the first one prompted and
\* the empty string was entered.
C20_SetEnv ==
    /\ [][last_call'.op = "_set_env" =>
             LET var == last_call'.arg
             IN  IF environ[var] \notin {Absent, ""}
                 THEN /\ UNCHANGED <<environ, prompts>>
                      /\ last_call'.result = <<>>
                 ELSE /\ Len(prompts') = Len(prompts) + 1
                      /\ Last(prompts').prompt = <<var, ": ">>
                      /\ environ'[var] = Last(prompts').entered
                      /\ \A other \in EnvVars \ {var} :
                             environ'[other] = environ[other]]_vars
    /\ [][(/\ last_call.op = "_set_env"
           /\ last_call'.op = "_set_env"
           /\ last_call'.arg = last_call.arg
           /\ \A i \in 1..Len(last_call.result) :
                  last_call.result[i].entered # "")
             => prompts' = prompts]_vars

\* the variable was unset, the first call prompted and got a key, the
\* second call for it showed nothing
C20_Witness ==
    /\ last_call.op = "_set_env"
    /\ last_call.arg = "TAVILY_API_KEY"
    /\ last_call.result = <<>>
    /\ Len(prompts) = 1
    /\ prompts[1].prompt = <<"TAVILY_API_KEY", ": ">>
    /\ prompts[1].entered = "key-2"
    /\ environ["TAVILY_API_KEY"] = "key-2"

-----------------------------------------------------------------------------
(* The claims about the shape of a run (Spec).                             *)

\* C21: the graph has one cycle, chatbot -> tools -> chatbot: each of the
\* two nodes is reachable from itself along the edges, START and END are
\* not; chatbot has two branches (tools, END) and tools one edge; and the
\* nodes of a run execute in that cycle's order, chatbot first and then
\* tools and chatbot in turn.
C21_OneCycle ==
    /\ \A n \in Nodes(nb) : n \in ReachableFrom(n)
    /\ START \notin ReachableFrom(START)
    /\ ReachableFrom(END) = {}
    /\ Successors("chatbot") = {"tools", END}
    /\ Successors("tools") = {"chatbot"}
    /\ \A i \in 1..Len(executed) :
           executed[i] = IF i % 2 = 1 THEN "chatbot" ELSE "tools"

\* a run that went round the cycle: chatbot has executed twice
C21_Witness ==
    /\ executed = <<"chatbot", "tools", "chatbot">>
    /\ pc = END
    /\ "chatbot" \in ReachableFrom("chatbot")

\* C21 as stated: no node is reachable from itself, so no node executes
\* twice in a run.
C21_NoCycle ==
    /\ \A n \in Nodes(nb) : n \notin ReachableFrom(n)
    /\ \A i \in 1..Len(executed), j \in 1..Len(executed) :
           executed[i] = executed[j] => i = j


-----------------------------------------------------------------------------
(* Part 2's loop on its own, with the scheduling that makes a turn end:    *)
(* the runner executes the node it has scheduled (weak fairness on the     *)
(* node steps), and the model, asked again and again, eventually answers   *)
(* without a tool call (strong fairness on the chatbot step that routes to *)
(* END).                                                                   *)

InitTurns == Init /\ nb = 2

\* A step of the node the runner has scheduled.
NodeStep == Chatbot \/ Tools2

NextTurns ==
    \/ \E line \in Lines : Input(line)
    \/ InputRaises
    \/ Except
    \/ Chatbot
    \/ Tools2

SpecFair ==
    /\ InitTurns
    /\ [][NextTurns]_vars
    /\ WF_vars(NodeStep)
    /\ SF_vars(Chatbot /\ pc' = END)

\* A chatbot step that stored the model's reply.
ChatbotRan == executed' = Append(executed, "chatbot")

\* C22: the chatbot/tools loop has no iteration bound of its own: a stored
\* reply with tool calls always routes to tools, however many iterations
\* have run, and a run is at END exactly when the stored reply carries no
\* tool call, so a model that always requests a tool never reaches END.
\* When the model eventually answers without a tool call, every run that is
\* at a node eventually leaves the loop: at END, or by an exception.
C22_Termination ==
    /\ [][ChatbotRan =>
             /\ (pc' = END) = (Last(messages').tool_calls = <<>>)
             /\ (pc' = "tools") = (Last(messages').tool_calls # <<>>)]_vars
    /\ [](pc = END =>
             /\ Last(messages).type = "ai"
             /\ Last(messages).tool_calls = <<>>)
    /\ [][pc' = END /\ pc # END => ChatbotRan]_vars
    /\ (pc \in {"chatbot", "tools"}) ~> (pc \in {END, "error"})

\* a turn that went twice round the loop before the model's final answer
C22_Witness ==
    /\ nb = 2
    /\ pc = END
    /\ executed = <<"chatbot", "tools", "chatbot", "tools", "chatbot">>
    /\ Last(messages).tool_calls = <<>>


\* A tools step that ran to its end and wrote its update.
ToolsRan == executed' = Append(executed, "tools")

\* C23: the tools node is scheduled only when the last message is an
\* assistant message with at least one tool call, so BasicToolNode's
\* "No message found in input" ValueError is raised in no run, and every
\* execution of the tools node appends at least one tool message (and
\* nothing but tool messages).
C23_ToolsOnlyAfterToolCall ==
    /\ [](pc = "tools" =>
             /\ messages # <<>>
             /\ Last(messages).type = "ai"
             /\ Len(Last(messages).tool_calls) >= 1)
    /\ [](error # "ValueError")
    /\ [][ToolsRan =>
             /\ Len(messages') > Len(messages)
             /\ SubSeq(messages', 1, Len(messages)) = messages
             /\ \A i \in Len(messages) + 1..Len(messages') :
                    messages'[i].type = "tool"]_vars

\* part 2's tools node has answered a request of two tool calls
C23_Witness ==
    /\ nb = 2
    /\ executed = <<"chatbot", "tools">>
    /\ Len(messages) = 4
    /\ Len(messages[2].tool_calls) = 2
    /\ messages[3].type = "tool"
    /\ messages[4].type = "tool"


\* The positions of the tool messages that answer the tool call `id`.
ResultsOf(id) ==
    {j \in 1..Len(messages) :
        messages[j].type = "tool" /\ messages[j].tool_call_id = id}

\* Every tool call of every assistant message has exactly one tool message
\* with its id, placed after the request and before the next assistant
\* message.
Paired ==
    \A i \in 1..Len(messages) :
        messages[i].type = "ai" =>
            \A k \in 1..Len(messages[i].tool_calls) :
                LET J == ResultsOf(messages[i].tool_calls[k].id)
                IN  /\ Cardinality(J) = 1
                    /\ \A j \in J :
                           /\ j > i
                           /\ \A h \in (i + 1)..(j - 1) : messages[h].type # "ai"

\* C24: whenever the chatbot node is about to execute, and at END, every
\* tool call in the history is paired with exactly one tool message of the
\* same call id, which follows the request and precedes the next assistant
\* message.
C24_ToolCallPairing == pc \in {"chatbot", END} => Paired

\* part 5 at END after a reviewed human_assistance call, and part 2 about
\* to run chatbot after a request of two tool calls was answered
C24_Witness ==
    \/ /\ nb = 5
       /\ pc = END
       /\ delivered # {}
       /\ \E i \in 1..Len(messages) : messages[i].name = HUMAN_ASSISTANCE
    \/ /\ nb = 2
       /\ pc = "chatbot"
       /\ Len(messages) = 4
       /\ Len(messages[2].tool_calls) = 2
       /\ ResultsOf(messages[2].tool_calls[2].id) = {4}


\* The step that takes a paused run out of its pause: the resume command.
Resumed == pc = "interrupted" /\ pc' # "interrupted"

\* C25: a resume command continues at the paused tool call: it appends
\* exactly one message, the tool message of the pending human_assistance
\* call id, together with the name and birthday update, and completes the
\* tools node so that chatbot runs next; the model is not called in that
\* step and no user message or new run is added.
C25_ResumeAtPausedCall ==
    [][Resumed =>
          /\ Len(interrupts) = 1
          /\ messages' = Append(messages, Last(messages'))
          /\ Last(messages').type = "tool"
          /\ Last(messages').name = HUMAN_ASSISTANCE
          /\ Last(messages').tool_call_id = interrupts[1].tool_call_id
          /\ Last(messages').tool_call_id = Last(messages).tool_calls[1].id
          /\ name' # Absent
          /\ birthday' # Absent
          /\ executed' = Append(executed, "tools")
          /\ pc' = "chatbot"
          /\ prompt' = prompt
          /\ run' = run]_vars

\* a run resumed with a correction, before chatbot has run again
C25_Witness ==
    /\ JustResumed
    /\ ~Accepts(resume_value[1])
    /\ pc = "chatbot"
    /\ Last(messages).type = "tool"
    /\ Last(messages).tool_call_id \in delivered
    /\ name \in HumanNames


\* C26: in part 5 every assistant message of the history carries at most
\* one tool call: a reply with more than one fails chatbot's assertion, the
\* run ends with AssertionError and the history is left as it was. So at
\* most one human_assistance interrupt is pending at any time.
C26_AtMostOneToolCall ==
    /\ [](nb = 5 =>
             \A i \in 1..Len(messages) :
                 messages[i].type = "ai" => Len(messages[i].tool_calls) <= 1)
    /\ [](nb = 5 => Len(interrupts) <= 1)
    /\ [][error' = "AssertionError" =>
             /\ nb = 5
             /\ pc' = "error"
             /\ messages' = messages
             /\ executed' = executed
             /\ interrupts' = interrupts]_vars

\* the assertion has failed in the second model call of a run
C26_Witness ==
    /\ nb = 5
    /\ pc = "error"
    /\ error = "AssertionError"
    /\ executed = <<"chatbot", "tools">>
    /\ Last(messages).type = "tool"


\* Some tool call of the last BasicToolNode call names an unregistered tool
\* or has an invocation that raises.
SomeCallFails ==
    LET calls == CallsOf(last_call.arg.inputs)
    IN  \E i \in 1..Len(calls) :
            \/ calls[i].name \notin DOMAIN tools_by_name(tools2)
            \/ last_call.arg.oracle[i] = "raise"

\* C27: BasicToolNode is all-or-nothing: when any tool call of the last
\* message names an unregistered tool or its invocation raises, the call
\* ends with that exception and no update, so nothing is appended to the
\* history, not even the results of the calls before the failing one; when
\* no call fails, every call has its tool message in the update.
C27_AllOrNothing ==
    (last_call.op = "BasicToolNode" /\ CallsOf(last_call.arg.inputs) # <<>>) =>
        LET calls == CallsOf(last_call.arg.inputs)
            history == last_call.arg.inputs["messages"]
            r == last_call.result
        IN  IF SomeCallFails
            THEN /\ r.status \in {"KeyError", "ToolError"}
                 /\ r.update = NoUpdate
                 /\ add_messages(history, r.update.messages) = history
            ELSE /\ r.status = "none"
                 /\ Len(r.update.messages) = Len(calls)

\* the second of two tool calls raised after the first had been invoked
C27_Witness ==
    /\ last_call.op = "BasicToolNode"
    /\ Len(CallsOf(last_call.arg.inputs)) = 2
    /\ last_call.arg.oracle = <<"ok", "raise">>
    /\ CallsOf(last_call.arg.inputs)[1].name = TAVILY
    /\ last_call.result.status = "ToolError"
    /\ Len(last_call.result.invoked) = 2
    /\ last_call.result.update = NoUpdate


-----------------------------------------------------------------------------
(* More claims about part 2's input loop and its output (Spec, nb = 2).    *)

\* C28: once the except branch is entered the canned question is printed
\* and run through the graph as a run of its own, exactly once: while that
\* run lasts no other run starts and no input is read, and the loop ends
\* when the run does, by the break when the run reached END and by the
\* exception when a node raised, which nothing catches. The loop does
\* nothing after it has ended, so the fallback runs at most once.
C28_FallbackOnce ==
    /\ [][(loop # "except" /\ loop' = "except") =>
             /\ caught = "none"
             /\ caught' # "none"
             /\ run' = run + 1
             /\ user_input' = Fallback
             /\ Len(messages') = 1
             /\ messages'[1].type = "human"
             /\ messages'[1].content = Text(Fallback)
             /\ Last(printed') = <<"User: ", Fallback>>
             /\ pc' = "chatbot"]_vars
    /\ [][loop = "except" =>
             /\ run' = run
             /\ user_input' = user_input
             /\ caught' = caught
             /\ messages'[1] = messages[1]
             /\ loop' = (CASE pc' = END -> "done"
                           [] pc' = "error" -> "raised"
                           [] OTHER -> "except")]_vars
    /\ [][(loop = "done" \/ loop = "raised") =>
             UNCHANGED <<graph_vars, loop_vars>>]_vars
    /\ [](loop = "raised" => pc = "error" /\ error # "none")

\* input() was not available and a tool raised during the fallback turn
C28_Witness ==
    /\ loop = "raised"
    /\ caught = "input"
    /\ run = 1
    /\ error = "ToolError"
    /\ messages[1].content = Text(Fallback)
    /\ printed[1] = <<"User: ", Fallback>>


\* The number of user messages in a history.
Humans(msgs) == Cardinality({i \in 1..Len(msgs) : msgs[i].type = "human"})

\* C29: in part 2 the turns are independent: every run starts from a
\* history that holds only the turn's user message, during the turn the
\* history holds that one user message and what the turn's nodes appended,
\* and what the model is handed is the history of the current turn, so no
\* message of an earlier turn is part of it.
C29_TurnsIndependent ==
    /\ [][(nb = 2 /\ run' # run) =>
             /\ run' = run + 1
             /\ Len(messages') = 1
             /\ messages'[1].type = "human"
             /\ messages'[1].content = Text(user_input')
             /\ prompt' = <<>>]_vars
    /\ [](nb = 2 /\ run > 0 =>
             /\ Humans(messages) = 1
             /\ messages[1].type = "human"
             /\ loop # "done" => messages[1].content = Text(user_input)
             /\ IsPrefix(prompt, messages)
             /\ Len(messages) <= 1 + Len(executed) * MaxCalls)

\* the second turn, the model called for the second time
C29_Witness ==
    /\ nb = 2
    /\ run = 2
    /\ caught = "none"
    /\ Len(prompt) = 3
    /\ Humans(prompt) = 1
    /\ prompt[1].content = Text(user_input)


\* The lines printed for the current run: those after the last "User: "
\* line of the except branch, all of them when there is none.
RunLines ==
    LET users == {i \in 1..Len(printed) : printed[i][1] = "User: "}
        from == IF users = {} THEN 0
                ELSE CHOOSE i \in users : \A j \in users : j <= i
    IN  SubSeq(printed, from + 1, Len(printed))

\* C30: in part 2 every node execution of a run prints exactly one
\* "Assistant:" line, in execution order, with the content of the last
\* message of the node's update; a tools execution prints the content of
\* its last tool message in the same way; nothing else prints such a line;
\* and the last line of a turn that reached END is the model's reply
\* without tool calls.
C30_OneLinePerNode ==
    /\ [][(nb = 2 /\ executed' # executed /\ run' = run) =>
             /\ printed' = Append(printed,
                                  <<"Assistant:", Last(messages').content>>)
             /\ Last(executed') = "tools" => Last(messages').type = "tool"
             /\ Last(executed') = "chatbot" => Last(messages').type = "ai"]_vars
    /\ [](nb = 2 /\ printed # << <<"Goodbye!">> >> =>
             /\ Len(RunLines) = Len(executed)
             /\ \A i \in 1..Len(RunLines) : RunLines[i][1] = "Assistant:")
    /\ [](nb = 2 /\ pc = END /\ printed # << <<"Goodbye!">> >> =>
             /\ Last(printed) = <<"Assistant:", Last(messages).content>>
             /\ Last(messages).type = "ai"
             /\ Last(messages).tool_calls = <<>>)

\* a completed turn whose tools node answered two tool calls: three lines,
\* the second with the content of the second tool message
C30_Witness ==
    /\ nb = 2
    /\ pc = END
    /\ executed = <<"chatbot", "tools", "chatbot">>
    /\ Len(messages) = 5
    /\ Len(printed) = 3
    /\ printed[1] = <<"Assistant:", messages[2].content>>
    /\ printed[2] = <<"Assistant:", messages[4].content>>
    /\ printed[3] = <<"Assistant:", messages[5].content>>


-----------------------------------------------------------------------------
(* The shape of the history at END.                                        *)

\* The assistant message at position i opens a round: its tool calls are
\* answered by the tool messages that follow it, one per call and in the
\* order of the calls, and an assistant message follows them.
RoundAt(i) ==
    LET calls == messages[i].tool_calls
        n == Len(calls)
    IN  /\ i + n + 1 <= Len(messages)
        /\ \A k \in 1..n :
               /\ messages[i + k].type = "tool"
               /\ messages[i + k].tool_call_id = calls[k].id
        /\ messages[i + n + 1].type = "ai"

\* The tool message at position j is one of the results of a round.
InRound(j) ==
    \E i \in 1..(j - 1) :
        /\ messages[i].type = "ai"
        /\ j - i <= Len(messages[i].tool_calls)
        /\ \A h \in (i + 1)..j : messages[h].type = "tool"

\* The history is made of whole turns: a user message, rounds of an
\* assistant message with tool calls and its tool results, and an assistant
\* message without tool calls, which ends the history or is followed by the
\* user message of the next turn.
TurnShape ==
    /\ messages # <<>>
    /\ messages[1].type = "human"
    /\ Last(messages).type = "ai"
    /\ Last(messages).tool_calls = <<>>
    /\ \A i \in 1..Len(messages) :
           CASE messages[i].type = "human" ->
                   /\ i = 1 \/ (/\ messages[i - 1].type = "ai"
                                /\ messages[i - 1].tool_calls = <<>>)
                   /\ i < Len(messages)
                   /\ messages[i + 1].type = "ai"
             [] messages[i].type = "ai" ->
                   IF messages[i].tool_calls # <<>> THEN RoundAt(i)
                   ELSE i = Len(messages) \/ messages[i + 1].type = "human"
             [] OTHER -> InRound(i)

\* C31: whenever a run is at END the last message is an assistant message
\* without tool calls and the history is: the user message, zero or more
\* rounds of an assistant message with tool calls followed by its tool
\* results, and that final assistant message. Part 2's history holds one
\* such turn; part 5's, kept by the checkpointer, one per run of the thread.
C31_EndStateShape ==
    pc = END =>
        /\ TurnShape
        /\ nb = 2 => Humans(messages) = 1
        /\ nb = 5 => Humans(messages) = run

\* part 2 at END after a round of one tool call and a round of two
C31_Witness ==
    /\ nb = 2
    /\ pc = END
    /\ executed = <<"chatbot", "tools", "chatbot", "tools", "chatbot">>
    /\ Len(messages) = 7
    /\ Len(messages[2].tool_calls) = 1
    /\ Len(messages[4].tool_calls) = 2
    /\ messages[7].tool_calls = <<>>

=============================================================================
